---- MODULE Spec2Model ----
(***************************************************************************)
(* The quartz database facade (quartz_database.cc): QuartzDatabase, the    *)
(* read side, and QuartzWritableDatabase, the write side over a buffered   *)
(* table manager.  The six tables and their managers are modelled from     *)
(* their contracts; the facade's protocols are modelled from the source.   *)
(***************************************************************************)
EXTENDS Integers, Sequences, FiniteSets, TLC

VARIABLES
    disk,             \* the committed snapshot of the six tables
    revision,         \* revision number of the committed snapshot
    buffered_tables,  \* QuartzWritableDatabase::buffered_tables, the buffered view
    wlast,            \* the writable database's last call and its outcome
    added,            \* did -> the document the last successful add_document stored as did
    tables,           \* QuartzDatabase::tables, the snapshot the reader's handles are open at
    tables_rev,       \* the revision of that snapshot
    pc,               \* position of the reader inside do_get_document_internal
    rdid,             \* the did of the reader's call
    tries_left,       \* do_get_document_internal's local tries_left
    document,         \* do_get_document_internal's local document of the current attempt
    termlist,         \* the term-list entries the current attempt has still to read
    result,           \* how the reader's call ended
    rhist,            \* what happened during the reader's call (one_commit: whether the
                      \* writer's commits during the call were one, after the record read;
                      \* past_end: what the build made of control passing the end of
                      \* the retry budget, "" before)
    session,          \* writable database object -> a session is in progress on it
    session_lock,     \* holder of the directory's session lock, 0 when free
    last_call,        \* the last call followed in the session specification
    quartz_mutex,     \* database_ro.quartz_mutex: the thread holding it, 0 when free
    threads,          \* thread -> its position inside an entry point of the shared object
    stable,           \* the buffered view as the last finished call left it
    stack,            \* thread -> the frames of its nested calls, innermost last
    reader_quartz_mutex   \* quartz_mutex of a QuartzDatabase constructed on its own

vars == <<disk, revision, buffered_tables, wlast, added, tables, tables_rev, pc, rdid,
          tries_left, document, termlist, result, rhist, session, session_lock, last_call,
          quartz_mutex, threads, stable, stack, reader_quartz_mutex>>
writer_vars == <<buffered_tables, wlast, added>>
reader_vars == <<tables, tables_rev, pc, rdid, tries_left, document, termlist, result, rhist>>
session_vars == <<session, session_lock, last_call>>
lock_vars == <<stack, reader_quartz_mutex>>
thread_vars == <<quartz_mutex, threads, stable, lock_vars>>

----------------------------------------------------------------------------
(* Bounds *)

MaxDocid == 2      \* add_document is tried while the next docid is at most this
MaxCommits == 6    \* commits of the concurrent writer in the reader specification
MaxBuffered == 2   \* mutations the concurrent writer buffers between two commits

(* Program constants *)

InitialTries == 5  \* int tries_left = 5

----------------------------------------------------------------------------
(* Values *)

TermOrder == <<"cat", "dog">>   \* byte order of the term names

TermNames == {TermOrder[i] : i \in 1..Len(TermOrder)}

EmptyMap == << >>

Put(f, k, v) == [x \in (DOMAIN f) \cup {k} |-> IF x = k THEN v ELSE f[x]]

Del(f, k) == [x \in (DOMAIN f) \ {k} |-> f[x]]

\* std::map::insert: an existing key keeps its value
MapInsert(f, k, v) == IF k \in DOMAIN f THEN f ELSE Put(f, k, v)

Term(t, w, ps) == [tname |-> t, wdf |-> w, termfreq |-> 0, positions |-> ps]

EmptyDocument == [data |-> "", keys |-> EmptyMap, terms |-> EmptyMap]

Doc1 == [data |-> "hello",
         keys |-> Put(EmptyMap, 1, "a"),
         terms |-> Put(Put(EmptyMap, "cat", Term("cat", 2, <<0, 3>>)),
                       "dog", Term("dog", 1, <<1>>))]

Doc2 == [data |-> "world",
         keys |-> EmptyMap,
         terms |-> Put(EmptyMap, "cat", Term("cat", 1, <<5>>))]

Doc3 == [data |-> "",
         keys |-> Put(Put(EmptyMap, 1, "b"), 2, "c"),
         terms |-> Put(EmptyMap, "dog", Term("dog", 3, <<2, 4, 7>>))]

DocInputs == {Doc1, Doc2, Doc3}

\* the documents the writer of the reader specification adds
CommitInputs == {Doc1, Doc2}

Dids == 1..MaxDocid

SortedTerms(S) == SelectSeq(TermOrder, LAMBDA t : t \in S)

RECURSIVE SortedKeys(_)
SortedKeys(S) ==
    IF S = {} THEN << >>
    ELSE LET m == CHOOSE x \in S : \A y \in S : x <= y
         IN <<m>> \o SortedKeys(S \ {m})

RECURSIVE SumSeq(_)
SumSeq(s) == IF s = << >> THEN 0 ELSE Head(s) + SumSeq(Tail(s))

----------------------------------------------------------------------------
(* The six tables *)

EmptyTables ==
    [record |-> [recs |-> EmptyMap, nextdocid |-> 1, doccount |-> 0, total_length |-> 0],
     attribute |-> EmptyMap,
     termlist |-> EmptyMap,
     lexicon |-> EmptyMap,
     postlist |-> EmptyMap,
     positionlist |-> EmptyMap]

\* Position-list codec: the first position, then the differences
EncodePositions(ps) ==
    [i \in 1..Len(ps) |-> IF i = 1 THEN ps[1] ELSE ps[i] - ps[i - 1]]

RECURSIVE DecodePositions(_, _)
DecodePositions(ds, prev) ==
    IF ds = << >> THEN << >>
    ELSE <<prev + Head(ds)>> \o DecodePositions(Tail(ds), prev + Head(ds))

\* QuartzRecordManager
add_record_keeps_nextdocid(T, data, doclen) ==
    LET did == T.record.nextdocid
    IN [T EXCEPT !.record =
           [recs |-> Put(T.record.recs, did, [data |-> data, doclen |-> doclen]),
            nextdocid |-> did,
            doccount |-> T.record.doccount + 1,
            total_length |-> T.record.total_length]]

add_record(T, data, doclen) ==
    LET did == T.record.nextdocid
    IN [T EXCEPT !.record =
           [recs |-> Put(T.record.recs, did, [data |-> data, doclen |-> doclen]),
            nextdocid |-> did + 1,
            doccount |-> T.record.doccount + 1,
            total_length |-> T.record.total_length]]

delete_record(T, did) ==
    [T EXCEPT !.record.recs = Del(T.record.recs, did),
              !.record.doccount = T.record.doccount - 1]

modify_total_length(T, old_doclen, new_doclen) ==
    [T EXCEPT !.record.total_length = T.record.total_length - old_doclen + new_doclen]

get_doccount_internal(T) == T.record.doccount

get_total_length(T) == T.record.total_length

\* QuartzDatabase::get_avlength_internal
get_avlength_internal(T) ==
    LET docs == get_doccount_internal(T)
    IN IF docs = 0 THEN 0 ELSE get_total_length(T) \div docs

\* QuartzAttributesManager
add_attribute(T, value, did, keyid) ==
    [T EXCEPT !.attribute = Put(T.attribute, <<did, keyid>>, value)]

RECURSIVE PutAttributes(_, _, _, _)
PutAttributes(T, keys, did, ks) ==
    IF ks = << >> THEN keys
    ELSE PutAttributes(T, Put(keys, Head(ks), T.attribute[<<did, Head(ks)>>]), did, Tail(ks))

get_all_attributes(T, keys, did) ==
    PutAttributes(T, keys, did,
                  SortedKeys({x[2] : x \in {y \in DOMAIN T.attribute : y[1] = did}}))

\* QuartzLexicon
get_entry(T, tname) == tname \in DOMAIN T.lexicon

LexiconTermfreq(T, tname) == IF get_entry(T, tname) THEN T.lexicon[tname] ELSE 0

increment_termfreq(T, tname) ==
    [T EXCEPT !.lexicon = Put(T.lexicon, tname, LexiconTermfreq(T, tname) + 1)]

decrement_termfreq_keeps_entry(T, tname) ==
    [T EXCEPT !.lexicon = IF get_entry(T, tname)
                          THEN Put(T.lexicon, tname, T.lexicon[tname] - 1)
                          ELSE T.lexicon]

decrement_termfreq(T, tname) ==
    [T EXCEPT !.lexicon = IF LexiconTermfreq(T, tname) <= 1
                          THEN Del(T.lexicon, tname)
                          ELSE Put(T.lexicon, tname, T.lexicon[tname] - 1)]

\* QuartzTermList
TermlistEntries(terms) ==
    LET ts == SortedTerms(DOMAIN terms)
    IN [i \in 1..Len(ts) |-> [tname |-> terms[ts[i]].tname, wdf |-> terms[ts[i]].wdf]]

set_entries(T, did, terms, doclen) ==
    [T EXCEPT !.termlist = Put(T.termlist, did,
                               [doclen |-> doclen, entries |-> TermlistEntries(terms)])]

delete_termlist(T, did) == [T EXCEPT !.termlist = Del(T.termlist, did)]

get_doclength(T, did) == IF did \in DOMAIN T.termlist THEN T.termlist[did].doclen ELSE 0

OpenTermList(T, did) == IF did \in DOMAIN T.termlist THEN T.termlist[did].entries ELSE << >>

\* QuartzPostList
PostList(T, tname) == IF tname \in DOMAIN T.postlist THEN T.postlist[tname] ELSE << >>

add_entry(T, tname, did, wdf, doclen) ==
    LET pl == PostList(T, tname)
        e == [did |-> did, wdf |-> wdf, doclen |-> doclen]
        before == SelectSeq(pl, LAMBDA x : x.did < did)
        after == SelectSeq(pl, LAMBDA x : x.did > did)
    IN [T EXCEPT !.postlist = Put(T.postlist, tname, before \o <<e>> \o after)]

delete_entry(T, tname, did) ==
    LET pl == SelectSeq(PostList(T, tname), LAMBDA x : x.did # did)
    IN [T EXCEPT !.postlist = IF pl = << >> THEN Del(T.postlist, tname)
                              ELSE Put(T.postlist, tname, pl)]

get_collection_freq(T, tname) ==
    LET pl == PostList(T, tname)
    IN SumSeq([i \in 1..Len(pl) |-> pl[i].wdf])

\* QuartzPositionList
set_positionlist(T, did, tname, positions) ==
    [T EXCEPT !.positionlist = Put(T.positionlist, <<did, tname>>, EncodePositions(positions))]

delete_positionlist(T, did, tname) ==
    [T EXCEPT !.positionlist = Del(T.positionlist, <<did, tname>>)]

read_data(T, did, tname) ==
    IF <<did, tname>> \in DOMAIN T.positionlist
    THEN DecodePositions(T.positionlist[<<did, tname>>], 0)
    ELSE << >>

\* QuartzBufferedTableManager
apply(B) == B

cancel(B, D) == D

----------------------------------------------------------------------------
(* One call on a table manager, as a value: the facade's calls of one       *)
(* mutation in program order, so that a failure can be put before any one. *)

BaseOp == [op |-> "", did |-> 0, keyid |-> 0, value |-> "", tname |-> "", wdf |-> 0,
           doclen |-> 0, old |-> 0, new |-> 0, positions |-> << >>, data |-> "",
           terms |-> EmptyMap]

ApplyOp(T, o) ==
    CASE o.op = "add_record" -> add_record(T, o.data, o.doclen)
      [] o.op = "add_attribute" -> add_attribute(T, o.value, o.did, o.keyid)
      [] o.op = "set_entries" -> set_entries(T, o.did, o.terms, o.doclen)
      [] o.op = "modify_total_length" -> modify_total_length(T, o.old, o.new)
      [] o.op = "increment_termfreq" -> increment_termfreq(T, o.tname)
      [] o.op = "add_entry" -> add_entry(T, o.tname, o.did, o.wdf, o.doclen)
      [] o.op = "set_positionlist" -> set_positionlist(T, o.did, o.tname, o.positions)
      [] o.op = "delete_entry" -> delete_entry(T, o.tname, o.did)
      [] o.op = "delete_positionlist" -> delete_positionlist(T, o.did, o.tname)
      [] o.op = "decrement_termfreq" -> decrement_termfreq(T, o.tname)
      [] o.op = "get_doclength" -> T
      [] o.op = "delete_termlist" -> delete_termlist(T, o.did)
      [] o.op = "delete_record" -> delete_record(T, o.did)

\* The state after the first n calls of ops
RECURSIVE RunOps(_, _, _)
RunOps(T, ops, n) ==
    IF n = 0 THEN T ELSE ApplyOp(RunOps(T, ops, n - 1), ops[n])

RECURSIVE Flatten(_)
Flatten(ss) == IF ss = << >> THEN << >> ELSE Head(ss) \o Flatten(Tail(ss))

----------------------------------------------------------------------------
(* QuartzDatabase::do_get_document_internal, one attempt *)

NoResult == [kind |-> "none", err |-> "", doc |-> EmptyDocument]

Returned(doc) == [kind |-> "returned", err |-> "", doc |-> doc]

Raised(err) == [kind |-> "raised", err |-> err, doc |-> EmptyDocument]

get_record(T, did) ==
    IF did \in DOMAIN T.record.recs THEN Returned([EmptyDocument EXCEPT !.data = T.record.recs[did].data])
    ELSE Raised("NotFound")

ReadTerm_no_positions(T, did, e) ==
    [tname |-> e.tname,
     wdf |-> e.wdf,
     termfreq |-> LexiconTermfreq(T, e.tname),
     positions |-> << >>]

\* lines 222-237: one term of the term list, with its positions
ReadTerm(T, did, e) ==
    [tname |-> e.tname,
     wdf |-> e.wdf,
     termfreq |-> LexiconTermfreq(T, e.tname),
     positions |-> read_data(T, did, e.tname)]

InsertTerm(T, did, e, doc) ==
    [doc EXCEPT !.terms = MapInsert(doc.terms, e.tname, ReadTerm(T, did, e))]

RECURSIVE ReadTerms(_, _, _, _)
ReadTerms(T, did, entries, doc) ==
    IF entries = << >> THEN doc
    ELSE ReadTerms(T, did, Tail(entries), InsertTerm(T, did, Head(entries), doc))

\* lines 204-241 on a snapshot that is not overwritten during the attempt
get_document_attempt(T, did) ==
    LET rec == get_record(T, did)
    IN IF rec.kind = "raised" THEN rec
       ELSE LET d1 == [rec.doc EXCEPT !.keys = get_all_attributes(T, rec.doc.keys, did)]
            IN Returned(ReadTerms(T, did, OpenTermList(T, did), d1))

----------------------------------------------------------------------------
(* QuartzDatabase::do_get_document_internal: the retry loop *)

\* What the build can make of control reaching the end of a non-void
\* function: the caller gets an indeterminate object, the process is ended,
\* or, the compiler having taken the end of the function for unreachable,
\* the loop test is dropped and the loop goes on, with the handler's test of
\* tries_left kept ("loop_goes_on") or dropped as well ("handler_goes_on")
UBOutcomes == {"indeterminate_value", "abort", "loop_goes_on", "handler_goes_on"}

\* The outcomes in which the call is not over
GoesOn == {"loop_goes_on", "handler_goes_on"}

Undefined(o) == [kind |-> "undefined", err |-> o, doc |-> EmptyDocument]

\* lines 242-249: the handler of OmDatabaseModifiedError
catch_DatabaseModified_no_reopen(t) ==
    [tries_left |-> t - 1, reopen |-> FALSE, rethrow |-> FALSE]

catch_DatabaseModified(t) ==
    IF t > 0 THEN [tries_left |-> t - 1, reopen |-> TRUE, rethrow |-> FALSE]
    ELSE [tries_left |-> t - 1, reopen |-> FALSE, rethrow |-> TRUE]

\* The handler in a build that has dropped its test of tries_left with the
\* loop test: every OmDatabaseModifiedError is answered by a reopen and the
\* next attempt
catch_DatabaseModified_past_end(t) ==
    [tries_left |-> t, reopen |-> TRUE, rethrow |-> FALSE]

\* line 202: while (tries_left)
LoopContinues(t) == t # 0

\* lines 242-251 and 202 as the build runs them; ub is "" until control has
\* passed the end of the retry budget, and then the outcome the build made
\* of it.  next: what may follow the handler.
after_DatabaseModified(ub, t) ==
    LET c == IF ub = "handler_goes_on" THEN catch_DatabaseModified_past_end(t)
             ELSE catch_DatabaseModified(t)
    IN [tries_left |-> c.tries_left, reopen |-> c.reopen,
        next |-> IF c.rethrow THEN {"rethrow"}
                 ELSE IF ub \in GoesOn THEN {ub}
                 ELSE IF LoopContinues(c.tries_left) THEN {"retry"}
                 ELSE UBOutcomes]

\* The errors of the table layer met by one call of
\* do_get_document_internal: n OmDatabaseModifiedErrors, one in each of its
\* first n attempts, then last ("" for none) in the attempt after them; ub
\* is what the build makes of control passing the end of the retry budget,
\* and stale what the caller's uninitialised document then happens to hold
ReadFaults(n, last, ub, stale) == [n |-> n, last |-> last, ub |-> ub, stale |-> stale]

NoReadFaults == ReadFaults(0, "", "abort", EmptyDocument)

\* What the storage of an OmDocumentContents that was never constructed can
\* hold when it is walked: the destroyed document of an earlier call in the
\* same frame, with no terms left or with its terms still readable
StaleDocuments == {EmptyDocument} \cup DocInputs

\* lines 194-251 to the end of the call, on tables whose content T stays as
\* it is (a reopen of the buffered manager keeps the buffer): n of the
\* OmDatabaseModifiedErrors are still to come, t is tries_left and ub is ""
\* until control has passed the end of the budget
RECURSIVE do_get_document_internal(_, _, _, _, _, _)
do_get_document_internal(T, did, reads, n, t, ub) ==
    IF n = 0
    THEN IF reads.last # "" THEN Raised(reads.last) ELSE get_document_attempt(T, did)
    ELSE LET c == after_DatabaseModified(ub, t)
         IN IF c.next = {"rethrow"} THEN Raised("DatabaseModified")
            ELSE IF c.next = {"retry"} \/ c.next \subseteq GoesOn
            THEN do_get_document_internal(T, did, reads, n - 1, c.tries_left, ub)
            ELSE IF reads.ub \in GoesOn
            THEN do_get_document_internal(T, did, reads, n - 1, c.tries_left, reads.ub)
            ELSE Undefined(reads.ub)

----------------------------------------------------------------------------
(* QuartzWritableDatabase::do_add_document *)

new_doclen_counts_terms(doc) == Cardinality(DOMAIN doc.terms)

\* lines 491-496
new_doclen(doc) ==
    LET ts == SortedTerms(DOMAIN doc.terms)
    IN SumSeq([i \in 1..Len(ts) |-> doc.terms[ts[i]].wdf])

\* lines 509-516
AttributeOps(doc, did) ==
    LET ks == SortedKeys(DOMAIN doc.keys)
    IN [i \in 1..Len(ks) |->
           [BaseOp EXCEPT !.op = "add_attribute", !.value = doc.keys[ks[i]],
                          !.did = did, !.keyid = ks[i]]]

\* lines 533-549
TermOps(doc, did) ==
    LET ts == SortedTerms(DOMAIN doc.terms)
        len == new_doclen(doc)
    IN Flatten([i \in 1..Len(ts) |->
           LET term == doc.terms[ts[i]]
           IN << [BaseOp EXCEPT !.op = "increment_termfreq", !.tname = term.tname],
                 [BaseOp EXCEPT !.op = "add_entry", !.tname = term.tname, !.did = did,
                                !.wdf = term.wdf, !.doclen = len],
                 [BaseOp EXCEPT !.op = "set_positionlist", !.did = did,
                                !.tname = term.tname, !.positions = term.positions] >>])

\* lines 501-549: the body of the try block
AddOps(doc, did) ==
    << [BaseOp EXCEPT !.op = "add_record", !.data = doc.data, !.doclen = new_doclen(doc)] >>
    \o AttributeOps(doc, did)
    \o << [BaseOp EXCEPT !.op = "set_entries", !.did = did, !.terms = doc.terms,
                         !.doclen = new_doclen(doc)],
          [BaseOp EXCEPT !.op = "modify_total_length", !.old = 0, !.new = new_doclen(doc)] >>
    \o TermOps(doc, did)

CallResult(T, outcome, err, did, step, cancelled, doc) ==
    [tables |-> T, outcome |-> outcome, err |-> err, did |-> did, step |-> step,
     cancelled |-> cancelled, doc |-> doc]

do_add_document_no_cancel(B, D, doc, fault) ==
    LET did == B.record.nextdocid
        ops == AddOps(doc, did)
    IN IF fault = 0
       THEN CallResult(RunOps(B, ops, Len(ops)), "ok", "", did, "", FALSE, doc)
       ELSE CallResult(RunOps(B, ops, fault - 1), "raised", "Io", 0,
                       ops[fault].op, TRUE, EmptyDocument)

\* fault = 0: no call fails; fault = n: the n-th call of the try block throws
do_add_document(B, D, doc, fault) ==
    LET did == B.record.nextdocid
        ops == AddOps(doc, did)
    IN IF fault = 0
       THEN CallResult(RunOps(B, ops, Len(ops)), "ok", "", did, "", FALSE, doc)
       ELSE CallResult(cancel(RunOps(B, ops, fault - 1), D), "raised", "Io", 0,
                       ops[fault].op, TRUE, EmptyDocument)

----------------------------------------------------------------------------
(* QuartzWritableDatabase::do_delete_document *)

\* lines 577-590
DeleteTermOps(doc, did) ==
    LET ts == SortedTerms(DOMAIN doc.terms)
    IN Flatten([i \in 1..Len(ts) |->
           LET term == doc.terms[ts[i]]
           IN << [BaseOp EXCEPT !.op = "delete_entry", !.tname = term.tname, !.did = did],
                 [BaseOp EXCEPT !.op = "delete_positionlist", !.did = did,
                                !.tname = term.tname],
                 [BaseOp EXCEPT !.op = "decrement_termfreq", !.tname = term.tname] >>])

\* lines 577-617: the body of the try block; the attributes are not removed
DeleteOps(B, doc, did) ==
    DeleteTermOps(doc, did)
    \o << [BaseOp EXCEPT !.op = "get_doclength", !.did = did],
          [BaseOp EXCEPT !.op = "modify_total_length", !.old = get_doclength(B, did),
                         !.new = 0],
          [BaseOp EXCEPT !.op = "delete_termlist", !.did = did],
          [BaseOp EXCEPT !.op = "delete_record", !.did = did] >>

\* line 574: OmDocumentContents document(database_ro.
\* do_get_document_internal(did, ptrtothis)).  When the function runs off
\* its end and the build hands back an indeterminate object, document is
\* storage that was never constructed and the call goes on with what it
\* holds; a process that ends there, or while it walks that storage, is the
\* outcome "abort"
document_574(B, did, reads) ==
    LET got == do_get_document_internal(B, did, reads, reads.n, InitialTries, "")
    IN IF got.kind = "undefined" /\ got.err = "indeterminate_value"
       THEN Returned(reads.stale)
       ELSE got

\* lines 600-605: the term list of did is opened for its document length;
\* the call of the body at which that fails because did has no term list,
\* 0 when it has one
TermlistNotFoundAt(B, doc, did) ==
    IF did \in DOMAIN B.termlist THEN 0 ELSE Len(DeleteTermOps(doc, did)) + 1

\* The call of the body that raises, 0 for none: the injected fault, or the
\* missing term list when that comes first
RaisingCall(B, doc, did, fault) ==
    LET nf == TermlistNotFoundAt(B, doc, did)
    IN IF nf # 0 /\ (fault = 0 \/ nf < fault) THEN nf ELSE fault

do_delete_document_rolls_back_call(B, D, did, reads, fault) ==
    LET got == document_574(B, did, reads)
        ops == DeleteOps(B, got.doc, did)
        k == RaisingCall(B, got.doc, did, fault)
    IN IF got.kind = "raised"
       THEN CallResult(B, "raised", got.err, did, "get_document", FALSE, EmptyDocument)
       ELSE IF got.kind = "undefined"
       THEN CallResult(B, "undefined", got.err, did, "get_document", FALSE, EmptyDocument)
       ELSE IF k = 0
       THEN CallResult(RunOps(B, ops, Len(ops)), "ok", "", did, "", FALSE, got.doc)
       ELSE CallResult(B, "raised", IF k = fault THEN "Io" ELSE "NotFound", did, ops[k].op,
                       TRUE, EmptyDocument)

\* reads: the errors of the table layer while line 574 materialises the
\* document; fault as in do_add_document.  Line 574 is before the try block:
\* an error it raises reaches the caller without cancel.  The try block runs
\* on the document line 574 left, an indeterminate one included: its term
\* loop walks that document's terms, and lines 596-617 remove the document
\* length, the term list and the record of did.  A call during which the
\* process ends has no outcome.
do_delete_document(B, D, did, reads, fault) ==
    LET got == document_574(B, did, reads)
        ops == DeleteOps(B, got.doc, did)
        k == RaisingCall(B, got.doc, did, fault)
    IN IF got.kind = "raised"
       THEN CallResult(B, "raised", got.err, did, "get_document", FALSE, EmptyDocument)
       ELSE IF got.kind = "undefined"
       THEN CallResult(B, "undefined", got.err, did, "get_document", FALSE, EmptyDocument)
       ELSE IF k = 0
       THEN CallResult(RunOps(B, ops, Len(ops)), "ok", "", did, "", FALSE, got.doc)
       ELSE CallResult(cancel(RunOps(B, ops, k - 1), D), "raised",
                       IF k = fault THEN "Io" ELSE "NotFound", did, ops[k].op, TRUE,
                       EmptyDocument)

----------------------------------------------------------------------------
(* The writable database: one action per entry point, under the mutex *)

\* The QuartzWritableDatabase objects opened on the directory
Writers == {1, 2}

\* The threads sharing one QuartzWritableDatabase object
Threads == {1, 2}

Call(db, op, outcome, err, did, pre) ==
    [db |-> db, op |-> op, outcome |-> outcome, err |-> err, did |-> did, pre |-> pre]

IdleThread ==
    [pc |-> "idle", op |-> "", ops |-> << >>, i |-> 0, did |-> 0, tname |-> "",
     outcome |-> "", err |-> "", whole |-> TRUE, value |-> 0]

WLast(op, r, pre) ==
    [op |-> op, outcome |-> r.outcome, err |-> r.err, did |-> r.did, step |-> r.step,
     cancelled |-> r.cancelled, doc |-> r.doc, pre |-> pre]

Init ==
    /\ disk = EmptyTables
    /\ revision = 0
    /\ buffered_tables = EmptyTables
    /\ wlast = WLast("init", CallResult(EmptyTables, "ok", "", 0, "", FALSE, EmptyDocument),
                     EmptyTables)
    /\ added = EmptyMap
    /\ tables = EmptyTables
    /\ tables_rev = 0
    /\ pc = "closed"
    /\ rdid = 0
    /\ tries_left = 0
    /\ document = EmptyDocument
    /\ termlist = << >>
    /\ result = NoResult
    /\ rhist = [attempts |-> 0, reopens |-> 0, caught |-> 0,
                one_commit |-> "other", past_end |-> ""]
    /\ session = [w \in Writers |-> FALSE]
    /\ session_lock = 0
    /\ last_call = Call(-1, "init", "ok", "", 0, EmptyTables)
    /\ quartz_mutex = 0
    /\ threads = [t \in Threads |-> IdleThread]
    /\ stable = EmptyTables
    /\ stack = [t \in Threads |-> << >>]
    /\ reader_quartz_mutex = 0

\* The process of the writable database has not ended during a call
Running == wlast.outcome # "undefined"

\* QuartzWritableDatabase::do_add_document
AddDocument ==
    /\ Running
    /\ buffered_tables.record.nextdocid <= MaxDocid
    /\ \E doc \in DocInputs :
         \E fault \in 0..Len(AddOps(doc, buffered_tables.record.nextdocid)) :
            \E r \in {do_add_document(buffered_tables, disk, doc, fault)} :
               /\ buffered_tables' = r.tables
               /\ wlast' = WLast("add_document", r, buffered_tables)
               /\ added' = IF r.outcome = "ok" THEN Put(added, r.did, doc) ELSE added
    /\ UNCHANGED <<disk, revision>>
    /\ UNCHANGED reader_vars
    /\ UNCHANGED <<session_vars, thread_vars>>

\* The errors of the table layer given to line 574 of one call: none, one
\* OmDatabaseModifiedError or one fewer than the retry budget, and then an
\* I/O error or none; as many as the budget, with each thing the build can
\* make of that; one more than the budget, in the builds whose loop goes on
ReadFaultInputs ==
    {ReadFaults(n, last, "abort", EmptyDocument) :
        n \in {0, 1, InitialTries - 1}, last \in {"", "Io"}}
    \cup {ReadFaults(InitialTries, "", ub, EmptyDocument) :
             ub \in UBOutcomes \ {"indeterminate_value"}}
    \cup {ReadFaults(InitialTries, "", "indeterminate_value", stale) :
             stale \in StaleDocuments}
    \cup {ReadFaults(InitialTries + 1, "", ub, EmptyDocument) : ub \in GoesOn}

\* QuartzWritableDatabase::do_delete_document.  A document read that ends
\* in the stored document after retries leaves the call where an
\* undisturbed read leaves it, so the faults of the body are injected after
\* an undisturbed read and after a read that left an indeterminate document.
DeleteDocument ==
    /\ Running
    /\ \E did \in Dids, reads \in ReadFaultInputs :
         \E got \in {document_574(buffered_tables, did, reads)} :
         \E fault \in 0..(IF got.kind = "returned"
                              /\ (reads = NoReadFaults \/ reads.ub = "indeterminate_value")
                           THEN LET nf == TermlistNotFoundAt(buffered_tables, got.doc, did)
                                IN IF nf = 0
                                   THEN Len(DeleteOps(buffered_tables, got.doc, did))
                                   ELSE nf - 1
                           ELSE 0) :
               \E r \in {do_delete_document(buffered_tables, disk, did, reads, fault)} :
                  /\ buffered_tables' = r.tables
                  /\ wlast' = WLast("delete_document", r, buffered_tables)
    /\ UNCHANGED <<disk, revision, added>>
    /\ UNCHANGED reader_vars
    /\ UNCHANGED <<session_vars, thread_vars>>

\* QuartzWritableDatabase::do_flush
do_flush ==
    /\ Running
    /\ disk' = apply(buffered_tables)
    /\ revision' = IF buffered_tables = disk THEN revision ELSE revision + 1
    /\ wlast' = WLast("flush", CallResult(buffered_tables, "ok", "", 0, "", FALSE,
                                          EmptyDocument), buffered_tables)
    /\ UNCHANGED <<buffered_tables, added>>
    /\ UNCHANGED reader_vars
    /\ UNCHANGED <<session_vars, thread_vars>>

\* QuartzWritableDatabase::do_get_document: reads through the buffered tables
do_get_document ==
    /\ Running
    /\ \E did \in Dids :
         \E got \in {get_document_attempt(buffered_tables, did)} :
            wlast' = WLast("get_document",
                           CallResult(buffered_tables,
                                      IF got.kind = "returned" THEN "ok" ELSE "raised",
                                      got.err, did, "", FALSE, got.doc),
                           buffered_tables)
    /\ UNCHANGED <<disk, revision, buffered_tables, added>>
    /\ UNCHANGED reader_vars
    /\ UNCHANGED <<session_vars, thread_vars>>

Next == AddDocument \/ DeleteDocument \/ do_flush \/ do_get_document

Spec == Init /\ [][Next]_vars

----------------------------------------------------------------------------
(* The read-only database of another process: do_get_document_internal,    *)
(* one table read per step, while the writer commits snapshots.            *)

ReadPcs == {"get_record", "get_all_attributes", "open_termlist", "read_term"}

\* lines 203-241: document and termlist are locals of the try block, gone
\* when control leaves it by a return or by an exception
LeaveTryBlock == [document |-> EmptyDocument, termlist |-> << >>]

AttemptDocument_kept(previous) == previous

\* line 204: each attempt declares a new document
AttemptDocument(previous) == EmptyDocument

\* QuartzDiskTableManager::reopen_tables_because_overwritten
reopen_tables(current, D) == D

\* QuartzDatabase::QuartzDatabase: the tables are opened at the committed revision
OpenDatabase ==
    /\ pc = "closed"
    /\ tables' = reopen_tables(tables, disk)
    /\ tables_rev' = revision
    /\ pc' = "idle"
    /\ UNCHANGED <<disk, revision, rdid, tries_left, document, termlist, result, rhist>>
    /\ UNCHANGED writer_vars
    /\ UNCHANGED <<session_vars, thread_vars>>

\* QuartzDatabase::do_get_document, lines 183-202
StartGetDocument ==
    /\ pc = "idle"
    /\ \E did \in Dids : rdid' = did
    /\ tries_left' = InitialTries
    /\ document' = AttemptDocument(document)
    /\ termlist' = << >>
    /\ pc' = IF LoopContinues(InitialTries) THEN "get_record" ELSE "done"
    /\ rhist' = [rhist EXCEPT !.attempts = 1, !.one_commit = IF tables_rev = revision THEN "none" ELSE "other"]
    /\ UNCHANGED <<disk, revision, tables, tables_rev, result>>
    /\ UNCHANGED writer_vars
    /\ UNCHANGED <<session_vars, thread_vars>>

\* lines 206-207
ReadRecord ==
    /\ pc = "get_record"
    /\ LET rec == get_record(tables, rdid)
       IN IF rec.kind = "raised"
          THEN /\ result' = rec
               /\ pc' = "done"
               /\ document' = LeaveTryBlock.document
               /\ termlist' = LeaveTryBlock.termlist
          ELSE /\ document' = [document EXCEPT !.data = rec.doc.data]
               /\ pc' = "get_all_attributes"
               /\ UNCHANGED <<result, termlist>>
    /\ UNCHANGED <<disk, revision, tables, tables_rev, rdid, tries_left, rhist>>
    /\ UNCHANGED writer_vars
    /\ UNCHANGED <<session_vars, thread_vars>>

\* lines 209-212
ReadAttributes ==
    /\ pc = "get_all_attributes"
    /\ document' = [document EXCEPT !.keys = get_all_attributes(tables, document.keys, rdid)]
    /\ pc' = "open_termlist"
    /\ UNCHANGED <<disk, revision, tables, tables_rev, rdid, tries_left, termlist, result, rhist>>
    /\ UNCHANGED writer_vars
    /\ UNCHANGED <<session_vars, thread_vars>>

\* lines 214-220
ReadTermList ==
    /\ pc = "open_termlist"
    /\ termlist' = OpenTermList(tables, rdid)
    /\ pc' = "read_term"
    /\ UNCHANGED <<disk, revision, tables, tables_rev, rdid, tries_left, document, result, rhist>>
    /\ UNCHANGED writer_vars
    /\ UNCHANGED <<session_vars, thread_vars>>

\* lines 221-239, one iteration
ReadNextTerm ==
    /\ pc = "read_term"
    /\ termlist # << >>
    /\ document' = InsertTerm(tables, rdid, Head(termlist), document)
    /\ termlist' = Tail(termlist)
    /\ UNCHANGED <<disk, revision, tables, tables_rev, pc, rdid, tries_left, result, rhist>>
    /\ UNCHANGED writer_vars
    /\ UNCHANGED <<session_vars, thread_vars>>

\* line 241
ReturnDocument ==
    /\ pc = "read_term"
    /\ termlist = << >>
    /\ result' = Returned(document)
    /\ pc' = "done"
    /\ document' = LeaveTryBlock.document
    /\ termlist' = LeaveTryBlock.termlist
    /\ UNCHANGED <<disk, revision, tables, tables_rev, rdid, tries_left, rhist>>
    /\ UNCHANGED writer_vars
    /\ UNCHANGED <<session_vars, thread_vars>>

AtTableRead == pc \in ReadPcs /\ (pc = "read_term" => termlist # << >>)

\* A table read finds its snapshot overwritten: lines 242-250, then line 202
DatabaseModified ==
    /\ AtTableRead
    /\ tables_rev # revision
    /\ LET c == after_DatabaseModified(rhist.past_end, tries_left)
       IN /\ tries_left' = c.tries_left
          /\ tables' = IF c.reopen THEN reopen_tables(tables, disk) ELSE tables
          /\ tables_rev' = IF c.reopen THEN revision ELSE tables_rev
          /\ \E o \in c.next :
                /\ rhist' = [rhist EXCEPT !.caught = @ + 1,
                                          !.reopens = IF c.reopen THEN @ + 1 ELSE @,
                                          !.attempts = IF o \in GoesOn \cup {"retry"}
                                                       THEN @ + 1 ELSE @,
                                          !.past_end = IF o \in GoesOn THEN o ELSE @]
                /\ IF o \in GoesOn \cup {"retry"}
                   THEN /\ pc' = "get_record"
                        /\ document' = AttemptDocument(document)
                        /\ termlist' = << >>
                        /\ UNCHANGED result
                   ELSE /\ pc' = "done"
                        /\ result' = IF o = "rethrow" THEN Raised("DatabaseModified")
                                     ELSE Undefined(o)
                        /\ document' = LeaveTryBlock.document
                        /\ termlist' = LeaveTryBlock.termlist
    /\ UNCHANGED <<disk, revision, rdid>>
    /\ UNCHANGED writer_vars
    /\ UNCHANGED <<session_vars, thread_vars>>

\* Any other error of a table read leaves the function at once
OtherError ==
    /\ AtTableRead
    /\ \E e \in {"Io", "DatabaseCorrupt"} : result' = Raised(e)
    /\ pc' = "done"
    /\ document' = LeaveTryBlock.document
    /\ termlist' = LeaveTryBlock.termlist
    /\ UNCHANGED <<disk, revision, tables, tables_rev, rdid, tries_left, rhist>>
    /\ UNCHANGED writer_vars
    /\ UNCHANGED <<session_vars, thread_vars>>

\* The documents that tables T have lost: docids are never reused
Deleted(T) == (T.record.nextdocid - 1) - Cardinality(DOMAIN T.record.recs)

\* The mutations buffered in B over the committed snapshot D: each
\* add_document takes a docid, each delete_document loses a document
Buffered(B, D) ==
    (B.record.nextdocid - D.record.nextdocid) + (Deleted(B) - Deleted(D))

\* The writer process, QuartzWritableDatabase::do_add_document or
\* do_delete_document: the mutation goes to the writer's buffer only, and
\* any number of them may precede a flush.  The writer is followed until
\* the reader's call has ended.
WriterMutation ==
    /\ revision < MaxCommits
    /\ pc # "done"
    /\ Buffered(buffered_tables, disk) < MaxBuffered
    /\ \/ /\ buffered_tables.record.nextdocid <= MaxDocid + 2
          /\ \E doc \in CommitInputs :
                buffered_tables' = do_add_document(buffered_tables, disk, doc, 0).tables
       \/ \E did \in DOMAIN buffered_tables.record.recs :
             buffered_tables' = do_delete_document(buffered_tables, disk, did, NoReadFaults, 0).tables
    /\ UNCHANGED <<disk, revision, wlast, added>>
    /\ UNCHANGED reader_vars
    /\ UNCHANGED <<session_vars, thread_vars>>

\* The writer process, QuartzWritableDatabase::do_flush: the buffered
\* mutations are committed as a new snapshot
WriterCommit ==
    /\ revision < MaxCommits
    /\ pc # "done"
    /\ buffered_tables # disk
    /\ disk' = apply(buffered_tables)
    /\ revision' = revision + 1
    /\ rhist' = IF pc \in ReadPcs
                THEN [rhist EXCEPT !.one_commit =
                         IF @ = "none" /\ pc \in {"get_all_attributes", "open_termlist"}
                         THEN "after_record_read" ELSE "other"]
                ELSE rhist
    /\ UNCHANGED <<buffered_tables, wlast, added, tables, tables_rev, pc, rdid, tries_left,
                   document, termlist, result>>
    /\ UNCHANGED <<session_vars, thread_vars>>

NextReader ==
    \/ OpenDatabase \/ StartGetDocument \/ ReadRecord \/ ReadAttributes \/ ReadTermList \/ ReadNextTerm
    \/ ReturnDocument \/ DatabaseModified \/ OtherError \/ WriterMutation \/ WriterCommit

SpecReader == Init /\ [][NextReader]_vars

----------------------------------------------------------------------------
(* Sessions: two QuartzWritableDatabase objects and a read-only            *)
(* QuartzDatabase on one directory.  Object 1's buffered view is           *)
(* buffered_tables; object 2 makes no mutation, so its change set stays    *)
(* empty.  The committed snapshot, disk, is what a read-only database      *)
(* opened on the directory sees.                                           *)

\* QuartzWritableDatabase's constructor: database_ro is built over the buffered
\* table manager, so every read of the writable database goes through the buffer
database_ro_tables_committed(B, D) == D

database_ro_tables(B, D) == B

\* QuartzDatabase::term_exists
term_exists(T, tname) == get_entry(T, tname)

\* QuartzWritableDatabase::get_doccount
Writable_get_doccount(B, D) == get_doccount_internal(database_ro_tables(B, D))

\* QuartzWritableDatabase::get_termfreq
Writable_get_termfreq(B, D, tname) == LexiconTermfreq(database_ro_tables(B, D), tname)

\* QuartzWritableDatabase::do_get_document
Writable_get_document(B, D, did) == get_document_attempt(database_ro_tables(B, D), did)

\* QuartzWritableDatabase::do_begin_session: the write lock is not taken
\* ("FIXME - get a write lock on the database"), and the call returns
do_begin_session(lock, w) == [lock |-> lock, outcome |-> "ok", err |-> ""]

\* QuartzWritableDatabase::do_end_session: apply(), and no lock is released
\* ("FIXME - release write lock on the database"); a failing apply() leaves
\* the committed snapshot and the buffer as they were and its error propagates
do_end_session(B, D, lock, applyfails) ==
    IF applyfails
    THEN [disk |-> D, lock |-> lock, outcome |-> "raised", err |-> "Io"]
    ELSE [disk |-> apply(B), lock |-> lock, outcome |-> "ok", err |-> ""]

MutationEntryPoints ==
    {"begin_session", "end_session", "flush", "begin_transaction", "commit_transaction",
     "cancel_transaction", "add_document", "delete_document", "replace_document"}

\* Assert(false): an assertion error where assertions are compiled in, and
\* nothing at all where they are compiled out
AssertFalse == {[outcome |-> "raised", err |-> "Assertion"], [outcome |-> "ok", err |-> ""]}

\* QuartzDatabase's mutation handlers (lines 127-181)
QuartzDatabase_mutation(ep) ==
    IF ep = "begin_session" THEN {[outcome |-> "raised", err |-> "InvalidOperation"]}
    ELSE IF ep = "add_document" THEN {[outcome |-> "raised", err |-> "Internal"]}
    ELSE AssertFalse

\* QuartzWritableDatabase::do_begin_session on object w
BeginSession(w) ==
    /\ ~session[w]
    /\ \E r \in {do_begin_session(session_lock, w)} :
          /\ session_lock' = r.lock
          /\ session' = [session EXCEPT ![w] = (r.outcome = "ok")]
          /\ last_call' = Call(w, "begin_session", r.outcome, r.err, 0, buffered_tables)
    /\ UNCHANGED <<disk, revision, buffered_tables, wlast, added>>
    /\ UNCHANGED <<reader_vars, thread_vars>>

\* QuartzWritableDatabase::do_end_session on object w; the session is over
\* whether apply() succeeded or not
EndSession(w) ==
    /\ session[w]
    /\ \E applyfails \in BOOLEAN :
         \E r \in {do_end_session(IF w = 1 THEN buffered_tables ELSE disk, disk, session_lock,
                                  applyfails)} :
            /\ disk' = r.disk
            /\ revision' = IF r.disk = disk THEN revision ELSE revision + 1
            /\ session_lock' = r.lock
            /\ session' = [session EXCEPT ![w] = FALSE]
            /\ last_call' = Call(w, "end_session", r.outcome, r.err, 0, buffered_tables)
    /\ UNCHANGED <<buffered_tables, wlast, added>>
    /\ UNCHANGED <<reader_vars, thread_vars>>

\* QuartzWritableDatabase::do_flush on object 1
SessionFlush ==
    /\ disk' = apply(buffered_tables)
    /\ revision' = IF buffered_tables = disk THEN revision ELSE revision + 1
    /\ last_call' = Call(1, "flush", "ok", "", 0, buffered_tables)
    /\ UNCHANGED <<buffered_tables, wlast, added, session, session_lock>>
    /\ UNCHANGED <<reader_vars, thread_vars>>

\* QuartzWritableDatabase::do_add_document on object 1; a failure is taken at
\* the first table update
SessionAdd ==
    /\ buffered_tables.record.nextdocid <= MaxDocid
    /\ \E doc \in CommitInputs, fault \in {0, 1} :
         \E r \in {do_add_document(buffered_tables, disk, doc, fault)} :
            /\ buffered_tables' = r.tables
            /\ last_call' = Call(1, "add_document", r.outcome, r.err, r.did, buffered_tables)
    /\ UNCHANGED <<disk, revision, wlast, added, session, session_lock>>
    /\ UNCHANGED <<reader_vars, thread_vars>>

\* QuartzWritableDatabase::do_delete_document on object 1
SessionDelete ==
    /\ \E did \in Dids :
         \E r \in {do_delete_document(buffered_tables, disk, did, NoReadFaults, 0)} :
            /\ buffered_tables' = r.tables
            /\ last_call' = Call(1, "delete_document", r.outcome, r.err, did, buffered_tables)
    /\ UNCHANGED <<disk, revision, wlast, added, session, session_lock>>
    /\ UNCHANGED <<reader_vars, thread_vars>>

\* The process holding object 1 ends without flush or end_session (no
\* destructor runs), and the directory is opened again: the new buffered
\* table manager starts from the committed snapshot
Abort ==
    /\ buffered_tables' = disk
    /\ session' = [session EXCEPT ![1] = FALSE]
    /\ session_lock' = IF session_lock = 1 THEN 0 ELSE session_lock
    /\ last_call' = Call(1, "abort", "ok", "", 0, buffered_tables)
    /\ UNCHANGED <<disk, revision, wlast, added>>
    /\ UNCHANGED <<reader_vars, thread_vars>>

\* A mutation handler of the read-only QuartzDatabase
ReadOnlyMutation ==
    /\ \E ep \in MutationEntryPoints :
         \E r \in QuartzDatabase_mutation(ep) :
            last_call' = Call(0, ep, r.outcome, r.err, 0, disk)
    /\ UNCHANGED <<disk, revision, buffered_tables, wlast, added, session, session_lock>>
    /\ UNCHANGED <<reader_vars, thread_vars>>

NextSession ==
    \/ \E w \in Writers : BeginSession(w)
    \/ \E w \in Writers : EndSession(w)
    \/ SessionFlush \/ SessionAdd \/ SessionDelete \/ Abort \/ ReadOnlyMutation

SpecSession == Init /\ [][NextSession]_vars

----------------------------------------------------------------------------
(* Threads: two threads call entry points of one QuartzWritableDatabase.   *)
(* Every entry point begins with OmLockSentry sentry(database_ro.          *)
(* quartz_mutex); the sentry's destructor unlocks when the entry point is  *)
(* left, by return or by exception.  Thread 1 calls the mutating and the   *)
(* unimplemented entry points, thread 2 the reading ones.  A mutation      *)
(* takes one step per call on a table manager.                             *)

MutatingThread == 1
ReadingThread == 2

UnimplementedOps ==
    {"get_doclength", "open_position_list", "replace_document", "begin_transaction",
     "commit_transaction", "cancel_transaction"}

ReadOps == {"get_document", "get_doccount", "get_termfreq"}

\* OmLockSentry's constructor: the caller passes when the mutex is free
sentry_lock_never_waits(m) == TRUE

sentry_lock(m) == m = 0

\* OmLockSentry's destructor
sentry_unlock(m, t) == IF m = t THEN 0 ELSE m

\* The body of an unimplemented entry point: throw OmUnimplementedError
Unimplemented_body_cancels(B, D) ==
    [tables |-> cancel(B, D), outcome |-> "raised", err |-> "Unimplemented"]

Unimplemented_body(B, D) ==
    [tables |-> B, outcome |-> "raised", err |-> "Unimplemented"]

InBody(t, op, ops, did, tname, err) ==
    [IdleThread EXCEPT !.pc = "body", !.op = op, !.ops = ops, !.did = did, !.tname = tname,
                       !.err = err]

\* The entry point is left: its arguments are gone, its outcome is kept
Ended(th, outcome, err) ==
    [th EXCEPT !.pc = "idle", !.ops = << >>, !.i = 0, !.did = 0, !.tname = "",
               !.outcome = outcome, !.err = err]

\* do_add_document is entered: sentry, then the document is to be stored as
\* the next docid
EnterAdd ==
    /\ threads[MutatingThread].pc = "idle"
    /\ sentry_lock(quartz_mutex)
    /\ buffered_tables.record.nextdocid <= MaxDocid
    /\ \E doc \in CommitInputs :
          threads' = [threads EXCEPT ![MutatingThread] =
                         InBody(MutatingThread, "add_document",
                                AddOps(doc, buffered_tables.record.nextdocid),
                                buffered_tables.record.nextdocid, "", "")]
    /\ quartz_mutex' = MutatingThread
    /\ UNCHANGED <<disk, revision, buffered_tables, wlast, added, stable>>
    /\ UNCHANGED <<reader_vars, session_vars, lock_vars>>

\* do_delete_document is entered: sentry, then the document is materialised
\* (line 574) before the try block
EnterDelete ==
    /\ threads[MutatingThread].pc = "idle"
    /\ sentry_lock(quartz_mutex)
    /\ \E did \in Dids :
         \E got \in {get_document_attempt(buffered_tables, did)} :
            threads' = [threads EXCEPT ![MutatingThread] =
                           IF got.kind = "raised"
                           THEN InBody(MutatingThread, "delete_document", << >>, did, "", got.err)
                           ELSE InBody(MutatingThread, "delete_document",
                                       DeleteOps(buffered_tables, got.doc, did), did, "", "")]
    /\ quartz_mutex' = MutatingThread
    /\ UNCHANGED <<disk, revision, buffered_tables, wlast, added, stable>>
    /\ UNCHANGED <<reader_vars, session_vars, lock_vars>>

\* The next call on a table manager inside the try block succeeds; after the
\* last one the entry point returns
MutationStep ==
    /\ threads[MutatingThread].pc = "body"
    /\ threads[MutatingThread].op \in {"add_document", "delete_document"}
    /\ threads[MutatingThread].err = ""
    /\ LET th == threads[MutatingThread]
           last == th.i + 1 = Len(th.ops)
       IN /\ buffered_tables' = ApplyOp(buffered_tables, th.ops[th.i + 1])
          /\ threads' = [threads EXCEPT ![MutatingThread] =
                            IF last THEN Ended(th, "ok", "") ELSE [th EXCEPT !.i = @ + 1]]
          /\ quartz_mutex' = IF last THEN sentry_unlock(quartz_mutex, MutatingThread)
                             ELSE quartz_mutex
          /\ stable' = IF last THEN buffered_tables' ELSE stable
    /\ UNCHANGED <<disk, revision, wlast, added>>
    /\ UNCHANGED <<reader_vars, session_vars, lock_vars>>

\* The next call on a table manager inside the try block fails: cancel and
\* rethrow; or the document of delete_document was not found: the error
\* leaves the entry point without cancel
MutationFault ==
    /\ threads[MutatingThread].pc = "body"
    /\ threads[MutatingThread].op \in {"add_document", "delete_document"}
    /\ LET th == threads[MutatingThread]
       IN /\ buffered_tables' = IF th.err = "" THEN cancel(buffered_tables, disk)
                                ELSE buffered_tables
          /\ threads' = [threads EXCEPT ![MutatingThread] =
                            Ended(th, "raised", IF th.err = "" THEN "Io" ELSE th.err)]
          /\ quartz_mutex' = sentry_unlock(quartz_mutex, MutatingThread)
          /\ stable' = buffered_tables'
    /\ UNCHANGED <<disk, revision, wlast, added>>
    /\ UNCHANGED <<reader_vars, session_vars, lock_vars>>

\* do_flush, or one of the unimplemented entry points, is entered
EnterOther ==
    /\ threads[MutatingThread].pc = "idle"
    /\ sentry_lock(quartz_mutex)
    /\ \E op \in {"flush"} \cup UnimplementedOps :
          threads' = [threads EXCEPT ![MutatingThread] =
                         InBody(MutatingThread, op, << >>, 1, "", "")]
    /\ quartz_mutex' = MutatingThread
    /\ UNCHANGED <<disk, revision, buffered_tables, wlast, added, stable>>
    /\ UNCHANGED <<reader_vars, session_vars, lock_vars>>

\* do_flush: buffered_tables->apply()
FlushBody ==
    /\ threads[MutatingThread].pc = "body"
    /\ threads[MutatingThread].op = "flush"
    /\ disk' = apply(buffered_tables)
    /\ revision' = IF buffered_tables = disk THEN revision ELSE revision + 1
    /\ threads' = [threads EXCEPT ![MutatingThread] = Ended(@, "ok", "")]
    /\ quartz_mutex' = sentry_unlock(quartz_mutex, MutatingThread)
    /\ UNCHANGED <<buffered_tables, wlast, added, stable>>
    /\ UNCHANGED <<reader_vars, session_vars, lock_vars>>

\* get_doclength, open_position_list, do_replace_document and the
\* transaction entry points: throw OmUnimplementedError
UnimplementedBody ==
    /\ threads[MutatingThread].pc = "body"
    /\ threads[MutatingThread].op \in UnimplementedOps
    /\ \E r \in {Unimplemented_body(buffered_tables, disk)} :
          /\ buffered_tables' = r.tables
          /\ threads' = [threads EXCEPT ![MutatingThread] = Ended(@, r.outcome, r.err)]
    /\ quartz_mutex' = sentry_unlock(quartz_mutex, MutatingThread)
    /\ stable' = buffered_tables'
    /\ UNCHANGED <<disk, revision, wlast, added>>
    /\ UNCHANGED <<reader_vars, session_vars, lock_vars>>

\* do_get_document, get_doccount or get_termfreq is entered
EnterRead ==
    /\ threads[ReadingThread].pc = "idle"
    /\ sentry_lock(quartz_mutex)
    /\ \/ \E did \in Dids :
             threads' = [threads EXCEPT ![ReadingThread] =
                            InBody(ReadingThread, "get_document", << >>, did, "", "")]
       \/ threads' = [threads EXCEPT ![ReadingThread] =
                         InBody(ReadingThread, "get_doccount", << >>, 0, "", "")]
       \/ \E tname \in TermNames :
             threads' = [threads EXCEPT ![ReadingThread] =
                            InBody(ReadingThread, "get_termfreq", << >>, 0, tname, "")]
    /\ quartz_mutex' = ReadingThread
    /\ UNCHANGED <<disk, revision, buffered_tables, wlast, added, stable>>
    /\ UNCHANGED <<reader_vars, session_vars, lock_vars>>

\* The read is made through the buffered tables and the entry point is left
ReadBody ==
    /\ threads[ReadingThread].pc = "body"
    /\ LET th == threads[ReadingThread]
           got == Writable_get_document(buffered_tables, disk, th.did)
           seen == [th EXCEPT !.whole = (buffered_tables = stable)]
       IN threads' = [threads EXCEPT ![ReadingThread] =
             CASE th.op = "get_document" ->
                     Ended(seen, IF got.kind = "returned" THEN "ok" ELSE "raised", got.err)
               [] th.op = "get_doccount" ->
                     Ended([seen EXCEPT !.value = Writable_get_doccount(buffered_tables, disk)],
                           "ok", "")
               [] th.op = "get_termfreq" ->
                     Ended([seen EXCEPT !.value =
                               Writable_get_termfreq(buffered_tables, disk, th.tname)],
                           "ok", "")]
    /\ quartz_mutex' = sentry_unlock(quartz_mutex, ReadingThread)
    /\ UNCHANGED <<disk, revision, buffered_tables, wlast, added, stable>>
    /\ UNCHANGED <<reader_vars, session_vars, lock_vars>>

NextThreads ==
    \/ EnterAdd \/ EnterDelete \/ MutationStep \/ MutationFault
    \/ EnterOther \/ FlushBody \/ UnimplementedBody
    \/ EnterRead \/ ReadBody

SpecThreads == Init /\ [][NextThreads]_vars

----------------------------------------------------------------------------
(* Nested calls and the mutexes: which functions construct an OmLockSentry *)
(* and which functions they call on the same object.  The mutex is not     *)
(* recursive: a thread that reaches a sentry while it holds the mutex      *)
(* never gets past it.  Two objects are followed: a QuartzWritableDatabase,*)
(* whose entry points and whose database_ro lock database_ro.quartz_mutex, *)
(* and a QuartzDatabase constructed on its own, with a quartz_mutex of its *)
(* own.                                                                    *)

\* QuartzDatabase's entry points that take the mutex
ReadEntryPoints ==
    {"QuartzDatabase::do_get_document", "QuartzDatabase::get_doccount",
     "QuartzDatabase::get_avlength", "QuartzDatabase::get_doclength",
     "QuartzDatabase::get_termfreq", "QuartzDatabase::get_collection_freq",
     "QuartzDatabase::term_exists", "QuartzDatabase::do_open_post_list",
     "QuartzDatabase::open_term_list", "QuartzDatabase::open_document",
     "QuartzDatabase::open_position_list"}

\* QuartzDatabase's mutation handlers (lines 127-181), which take no mutex
ReadOnlyMutator(fn) ==
    CASE fn = "QuartzDatabase::do_begin_session" -> "begin_session"
      [] fn = "QuartzDatabase::do_end_session" -> "end_session"
      [] fn = "QuartzDatabase::do_flush" -> "flush"
      [] fn = "QuartzDatabase::do_begin_transaction" -> "begin_transaction"
      [] fn = "QuartzDatabase::do_commit_transaction" -> "commit_transaction"
      [] fn = "QuartzDatabase::do_cancel_transaction" -> "cancel_transaction"
      [] fn = "QuartzDatabase::do_add_document" -> "add_document"
      [] fn = "QuartzDatabase::do_delete_document" -> "delete_document"
      [] fn = "QuartzDatabase::do_replace_document" -> "replace_document"
      [] OTHER -> ""

ReadOnlyMutators ==
    {"QuartzDatabase::do_begin_session", "QuartzDatabase::do_end_session",
     "QuartzDatabase::do_flush", "QuartzDatabase::do_begin_transaction",
     "QuartzDatabase::do_commit_transaction", "QuartzDatabase::do_cancel_transaction",
     "QuartzDatabase::do_add_document", "QuartzDatabase::do_delete_document",
     "QuartzDatabase::do_replace_document"}

\* QuartzWritableDatabase's readers that only call the same entry point of database_ro
DelegatingReaders ==
    {"QuartzWritableDatabase::get_avlength", "QuartzWritableDatabase::get_doclength",
     "QuartzWritableDatabase::get_termfreq", "QuartzWritableDatabase::get_collection_freq",
     "QuartzWritableDatabase::term_exists"}

\* QuartzWritableDatabase's entry points that take the mutex themselves
WritableSentryEntryPoints ==
    {"QuartzWritableDatabase::do_begin_session", "QuartzWritableDatabase::do_end_session",
     "QuartzWritableDatabase::do_flush", "QuartzWritableDatabase::do_begin_transaction",
     "QuartzWritableDatabase::do_commit_transaction",
     "QuartzWritableDatabase::do_cancel_transaction",
     "QuartzWritableDatabase::do_add_document", "QuartzWritableDatabase::do_delete_document",
     "QuartzWritableDatabase::do_replace_document", "QuartzWritableDatabase::do_get_document",
     "QuartzWritableDatabase::get_doccount", "QuartzWritableDatabase::do_open_post_list",
     "QuartzWritableDatabase::open_term_list", "QuartzWritableDatabase::open_document",
     "QuartzWritableDatabase::open_position_list"}

InternalHelpers ==
    {"QuartzDatabase::do_get_document_internal", "QuartzDatabase::get_doccount_internal",
     "QuartzDatabase::get_avlength_internal", "QuartzDatabase::open_post_list_internal",
     "QuartzDatabase::open_term_list_internal"}

\* What a client calls on the writable database and on the read-only one
WritableEntryPoints == DelegatingReaders \cup WritableSentryEntryPoints

EntryPoints == ReadEntryPoints \cup ReadOnlyMutators \cup WritableEntryPoints

\* The function's body has an OmLockSentry sentry(quartz_mutex)
TakesSentry(fn) == fn \in ReadEntryPoints \cup WritableSentryEntryPoints

\* The functions that check an argument, Assert(did != 0) or
\* Assert(tname.size() != 0), before they construct their sentry (lines 290,
\* 298, 311, 326, 381, 396, 567, 633, 721, 736)
AssertsBeforeSentry ==
    {"QuartzDatabase::get_doclength", "QuartzDatabase::get_termfreq",
     "QuartzDatabase::get_collection_freq", "QuartzDatabase::term_exists",
     "QuartzDatabase::open_document", "QuartzDatabase::open_position_list",
     "QuartzWritableDatabase::do_delete_document",
     "QuartzWritableDatabase::do_replace_document",
     "QuartzWritableDatabase::open_document",
     "QuartzWritableDatabase::open_position_list"}

\* The helpers whose first statement checks an argument (lines 198, 348, 359)
AssertsFirst ==
    {"QuartzDatabase::do_get_document_internal", "QuartzDatabase::open_post_list_internal",
     "QuartzDatabase::open_term_list_internal"}

\* do_delete_document materialises the document with database_ro's
\* do_get_document_internal (line 574) and opens the term's posting list
\* with database_ro.get_doccount_internal() (line 601)
do_delete_document_callees ==
    <<"QuartzDatabase::do_get_document_internal", "QuartzDatabase::get_doccount_internal">>

\* The calls a function makes on the database object or on database_ro, in
\* the order of one pass through its body with no exception; position k of
\* a function is the part of its body before its k-th call, and position 0
\* the part before its sentry
Callees(fn) ==
    CASE fn \in {"QuartzDatabase::do_get_document", "QuartzWritableDatabase::do_get_document"} ->
            <<"QuartzDatabase::do_get_document_internal">>
      [] fn \in {"QuartzDatabase::get_doccount", "QuartzWritableDatabase::get_doccount"} ->
            <<"QuartzDatabase::get_doccount_internal">>
      [] fn = "QuartzDatabase::get_avlength" -> <<"QuartzDatabase::get_avlength_internal">>
      [] fn \in {"QuartzDatabase::do_open_post_list",
                 "QuartzWritableDatabase::do_open_post_list"} ->
            <<"QuartzDatabase::open_post_list_internal">>
      [] fn \in {"QuartzDatabase::open_term_list", "QuartzWritableDatabase::open_term_list"} ->
            <<"QuartzDatabase::open_term_list_internal">>
      [] fn \in {"QuartzDatabase::do_get_document_internal",
                 "QuartzDatabase::get_avlength_internal",
                 "QuartzDatabase::open_term_list_internal"} ->
            <<"QuartzDatabase::get_doccount_internal">>
      [] fn = "QuartzWritableDatabase::do_delete_document" -> do_delete_document_callees
      [] fn = "QuartzWritableDatabase::get_avlength" -> <<"QuartzDatabase::get_avlength">>
      [] fn = "QuartzWritableDatabase::get_doclength" -> <<"QuartzDatabase::get_doclength">>
      [] fn = "QuartzWritableDatabase::get_termfreq" -> <<"QuartzDatabase::get_termfreq">>
      [] fn = "QuartzWritableDatabase::get_collection_freq" ->
            <<"QuartzDatabase::get_collection_freq">>
      [] fn = "QuartzWritableDatabase::term_exists" -> <<"QuartzDatabase::term_exists">>
      [] OTHER -> << >>

\* The functions whose body ends in a throw of OmUnimplementedError
ThrowsUnimplemented ==
    {"QuartzDatabase::get_doclength", "QuartzDatabase::open_position_list",
     "QuartzWritableDatabase::do_begin_transaction",
     "QuartzWritableDatabase::do_commit_transaction",
     "QuartzWritableDatabase::do_cancel_transaction",
     "QuartzWritableDatabase::do_replace_document",
     "QuartzWritableDatabase::open_position_list"}

\* The positions of a function at which it calls the table layer
TableCallsAt(fn) ==
    CASE fn = "QuartzDatabase::do_get_document_internal" -> {1, 2}
      [] fn \in {"QuartzDatabase::get_doccount_internal",
                 "QuartzDatabase::open_post_list_internal"} -> {1}
      [] fn \in {"QuartzDatabase::get_avlength_internal",
                 "QuartzDatabase::open_term_list_internal"} -> {2}
      [] fn \in {"QuartzDatabase::get_termfreq", "QuartzDatabase::get_collection_freq",
                 "QuartzDatabase::term_exists", "QuartzDatabase::open_document",
                 "QuartzWritableDatabase::open_document",
                 "QuartzWritableDatabase::do_end_session",
                 "QuartzWritableDatabase::do_flush",
                 "QuartzWritableDatabase::do_add_document"} -> {1}
      [] fn = "QuartzWritableDatabase::do_delete_document" -> {2, 3}
      [] OTHER -> {}

\* The exceptions a statement of the function's own can raise at a
\* position: a failed Assert where assertions are compiled in, the throw
\* that is the function's body, an error of the table layer.  first: the
\* function has not been through its handler of OmDatabaseModifiedError
Raises(fn, pos, first) ==
    (IF pos = 0 /\ fn \in AssertsBeforeSentry THEN {"Assertion"} ELSE {})
    \cup (IF pos = 1 /\ fn \in AssertsFirst /\ first THEN {"Assertion"} ELSE {})
    \cup (IF pos = 1 /\ fn \in ThrowsUnimplemented THEN {"Unimplemented"} ELSE {})
    \cup (IF pos = 1 /\ fn \in ReadOnlyMutators
          THEN {o.err : o \in {x \in QuartzDatabase_mutation(ReadOnlyMutator(fn)) :
                                  x.outcome = "raised"}}
          ELSE {})
    \cup (IF pos \in TableCallsAt(fn) THEN {"DatabaseModified", "Io"} ELSE {})

\* The positions of a function at which a statement of its own can raise an
\* exception
RaisesAt(fn) == {pos \in 0..3 : Raises(fn, pos, TRUE) # {}}

\* The function can reach the end of its body
Returns(fn) ==
    /\ fn \notin ThrowsUnimplemented
    /\ fn \in ReadOnlyMutators =>
          \E o \in QuartzDatabase_mutation(ReadOnlyMutator(fn)) : o.outcome = "ok"

\* A function is entered, at position 0 if it has a sentry and at position
\* 1 if it has none; do_get_document_internal starts with its retry budget
Frame(fn) ==
    [fn |-> fn, pos |-> IF TakesSentry(fn) THEN 0 ELSE 1, locked |-> FALSE,
     tries_left |-> IF fn = "QuartzDatabase::do_get_document_internal"
                    THEN InitialTries ELSE 0,
     ub |-> ""]

Top(t) == stack[t][Len(stack[t])]

SetTop(t, f) == [stack EXCEPT ![t] = [@ EXCEPT ![Len(@)] = f]]

\* The function on top is left
Pop(t) == [stack EXCEPT ![t] = SubSeq(@, 1, Len(@) - 1)]

\* The thread's call is on the writable database or inside its database_ro
OnWritable(t) == stack[t][1].fn \in WritableEntryPoints

\* The mutex that the sentries of the thread's call lock
Mutex(t) == IF OnWritable(t) THEN quartz_mutex ELSE reader_quartz_mutex

SetMutex(t, m) ==
    IF OnWritable(t)
    THEN quartz_mutex' = m /\ UNCHANGED reader_quartz_mutex
    ELSE reader_quartz_mutex' = m /\ UNCHANGED quartz_mutex

\* The sentry of the function on top, if it has locked, unlocks
Unlocked(t) == SetMutex(t, IF Top(t).locked THEN sentry_unlock(Mutex(t), t) ELSE Mutex(t))

\* A thread calls an entry point of one of the two objects
CallEntryPoint(t) ==
    /\ threads[t].pc = "idle"
    /\ \E ep \in EntryPoints :
          /\ stack' = [stack EXCEPT ![t] = <<Frame(ep)>>]
          /\ threads' = [threads EXCEPT ![t] = [IdleThread EXCEPT !.pc = "body", !.op = ep]]
    /\ UNCHANGED <<disk, revision, buffered_tables, wlast, added, stable>>
    /\ UNCHANGED <<quartz_mutex, reader_quartz_mutex>>
    /\ UNCHANGED <<reader_vars, session_vars>>

\* OmLockSentry's constructor: the thread waits while another thread holds
\* the mutex, takes it when it is free, and is stuck for good when it holds
\* it already
AcquireSentry(t) ==
    /\ threads[t].pc = "body"
    /\ Top(t).pos = 0
    /\ Mutex(t) \in {0, t}
    /\ IF Mutex(t) = t
       THEN /\ threads' = [threads EXCEPT ![t].pc = "deadlocked"]
            /\ UNCHANGED <<quartz_mutex, reader_quartz_mutex, stack>>
       ELSE /\ SetMutex(t, t)
            /\ stack' = SetTop(t, [Top(t) EXCEPT !.pos = 1, !.locked = TRUE])
            /\ threads' = [threads EXCEPT ![t].value = @ + 1]
    /\ UNCHANGED <<disk, revision, buffered_tables, wlast, added, stable>>
    /\ UNCHANGED <<reader_vars, session_vars>>

\* The function on top calls its next callee
CallNext(t) ==
    /\ threads[t].pc = "body"
    /\ Top(t).pos \in 1..Len(Callees(Top(t).fn))
    /\ stack' = [stack EXCEPT ![t] =
                    Append(SetTop(t, [Top(t) EXCEPT !.pos = @ + 1])[t],
                           Frame(Callees(Top(t).fn)[Top(t).pos]))]
    /\ UNCHANGED <<disk, revision, buffered_tables, wlast, added, threads, stable>>
    /\ UNCHANGED <<quartz_mutex, reader_quartz_mutex>>
    /\ UNCHANGED <<reader_vars, session_vars>>

\* The function on top returns
ReturnFrom(t) ==
    /\ threads[t].pc = "body"
    /\ Top(t).pos = Len(Callees(Top(t).fn)) + 1
    /\ Returns(Top(t).fn)
    /\ stack' = Pop(t)
    /\ Unlocked(t)
    /\ threads' = IF Len(stack[t]) = 1
                  THEN [threads EXCEPT ![t].pc = "idle", ![t].outcome = "ok", ![t].i = 0]
                  ELSE threads
    /\ UNCHANGED <<disk, revision, buffered_tables, wlast, added, stable>>
    /\ UNCHANGED <<reader_vars, session_vars>>

\* A statement of the function on top raises an exception; threads[t].i
\* counts the OmDatabaseModifiedErrors of the call, each of which takes a
\* commit of another process
Raise(t) ==
    /\ threads[t].pc = "body"
    /\ Top(t).pos \in RaisesAt(Top(t).fn)
    /\ \E e \in Raises(Top(t).fn, Top(t).pos,
                       Top(t).tries_left = Frame(Top(t).fn).tries_left /\ Top(t).ub = "") :
          /\ e = "DatabaseModified" => threads[t].i < MaxCommits
          /\ threads' = [threads EXCEPT ![t].pc = "unwinding", ![t].err = e,
                                        ![t].i = IF e = "DatabaseModified" THEN @ + 1 ELSE @]
    /\ UNCHANGED <<disk, revision, buffered_tables, wlast, added, stable, stack>>
    /\ UNCHANGED <<quartz_mutex, reader_quartz_mutex>>
    /\ UNCHANGED <<reader_vars, session_vars>>

\* The exception reaches the function on top.  do_get_document_internal
\* handles OmDatabaseModifiedError (lines 242-251, then line 202: the next
\* attempt starts at the top of its body); every other function is left,
\* its sentry unlocking, and the exception goes on to its caller
Unwind(t) ==
    /\ threads[t].pc = "unwinding"
    /\ IF Top(t).fn = "QuartzDatabase::do_get_document_internal"
          /\ threads[t].err = "DatabaseModified"
       THEN LET c == after_DatabaseModified(Top(t).ub, Top(t).tries_left)
            IN \E o \in c.next :
                  CASE o \in GoesOn \cup {"retry"} ->
                          /\ stack' = SetTop(t, [Top(t) EXCEPT
                                                    !.pos = 1,
                                                    !.tries_left = c.tries_left,
                                                    !.ub = IF o \in GoesOn THEN o ELSE @])
                          /\ threads' = [threads EXCEPT ![t].pc = "body", ![t].err = ""]
                          /\ UNCHANGED <<quartz_mutex, reader_quartz_mutex>>
                    [] o = "rethrow" ->
                          /\ stack' = Pop(t)
                          /\ UNCHANGED <<threads, quartz_mutex, reader_quartz_mutex>>
                    [] o = "indeterminate_value" ->
                          /\ stack' = Pop(t)
                          /\ threads' = [threads EXCEPT ![t].pc = "body", ![t].err = ""]
                          /\ UNCHANGED <<quartz_mutex, reader_quartz_mutex>>
                    [] o = "abort" ->
                          /\ threads' = [threads EXCEPT ![t].pc = "aborted"]
                          /\ UNCHANGED <<stack, quartz_mutex, reader_quartz_mutex>>
       ELSE /\ stack' = Pop(t)
            /\ Unlocked(t)
            /\ threads' = IF Len(stack[t]) = 1
                          THEN [threads EXCEPT ![t].pc = "idle", ![t].outcome = "raised",
                                               ![t].i = 0]
                          ELSE threads
    /\ UNCHANGED <<disk, revision, buffered_tables, wlast, added, stable>>
    /\ UNCHANGED <<reader_vars, session_vars>>

NextLocks ==
    \E t \in Threads :
       \/ CallEntryPoint(t) \/ AcquireSentry(t) \/ CallNext(t) \/ ReturnFrom(t)
       \/ Raise(t) \/ Unwind(t)

SpecLocks == Init /\ [][NextLocks]_vars

----------------------------------------------------------------------------
(* Properties *)

Live(T) == DOMAIN T.record.recs

\* the document length of a live document: the sum of the wdf of its term list
StoredDoclen(T, did) ==
    LET es == OpenTermList(T, did)
    IN SumSeq([i \in 1..Len(es) |-> es[i].wdf])

RECURSIVE SumOver(_, _)
SumOver(T, S) ==
    IF S = {} THEN 0
    ELSE LET d == CHOOSE x \in S : TRUE
         IN StoredDoclen(T, d) + SumOver(T, S \ {d})

\* the live documents whose term list holds tname
DocsWith(T, tname) ==
    {d \in Live(T) : \E i \in 1..Len(OpenTermList(T, d)) : OpenTermList(T, d)[i].tname = tname}

FailedCall(op) == wlast.op = op /\ wlast.outcome = "raised"

SucceededCall(op) == wlast.op = op /\ wlast.outcome = "ok"

\* C1: a get_document call ends by returning a document or by raising an
\* error, and after InitialTries DatabaseModified errors it ends by raising
\* DatabaseModified.
C1_GetDocumentOutcomeTotal ==
    pc = "done" =>
        /\ result.kind \in {"returned", "raised"}
        /\ rhist.caught >= InitialTries => result = Raised("DatabaseModified")

\* C2 as claimed: after a failed add_document the buffered state equals the
\* buffered state immediately before the call, whatever was buffered before.
C2_AddAtomicAlways ==
    FailedCall("add_document") => buffered_tables = wlast.pre

\* C2 as amended: after a failed add_document the buffered state equals the
\* buffered state before the call when nothing was buffered and unapplied
\* before the call, and the last committed snapshot otherwise.
C2_AddAtomicWhenNothingBuffered ==
    FailedCall("add_document") =>
        IF wlast.pre = disk THEN buffered_tables = wlast.pre ELSE buffered_tables = disk

C2_Witness ==
    /\ FailedCall("add_document")
    /\ wlast.step = "set_positionlist"
    /\ wlast.pre = disk
    /\ Live(disk) # {}

\* C3: a failure inside the mutation body of add_document or delete_document
\* cancels the whole buffered change set (the buffered view equals the last
\* committed snapshot) and re-raises the error: the Io error of the failing
\* table call, or the NotFound of get_doclength when the document whose
\* term list is opened at lines 596-599 has no term list.
C3_FailureCancelsWholeBuffer ==
    (/\ FailedCall("add_document") \/ FailedCall("delete_document")
     /\ wlast.step # "get_document")
    => /\ wlast.cancelled
       /\ buffered_tables = disk
       /\ wlast.err \in {"Io", "NotFound"}
       /\ wlast.err = "NotFound" =>
             /\ wlast.op = "delete_document"
             /\ wlast.step = "get_doclength"
             /\ wlast.did \notin DOMAIN wlast.pre.termlist

C3_Witness ==
    /\ FailedCall("delete_document")
    /\ wlast.step = "delete_record"
    /\ wlast.pre # disk
    /\ Live(wlast.pre) # Live(disk)
    /\ buffered_tables = disk

\* C4: every error of delete_document, at any step (the document read of
\* line 574 and its retry loop included), is followed by cancel: the call
\* has failed, the buffer has been cancelled and equals the committed
\* snapshot.
C4_DeleteCancelsOnEveryError ==
    FailedCall("delete_document") => wlast.cancelled /\ buffered_tables = disk

\* C5: no table of the committed snapshot holds an entry of a document that
\* is not live (deleted and flushed).
C5_NoPartialPresence ==
    /\ \A k \in DOMAIN disk.attribute : k[1] \in Live(disk)
    /\ DOMAIN disk.termlist \subseteq Live(disk)
    /\ \A k \in DOMAIN disk.positionlist : k[1] \in Live(disk)
    /\ \A t \in DOMAIN disk.postlist :
          \A i \in 1..Len(disk.postlist[t]) : disk.postlist[t][i].did \in Live(disk)

I1I2(T) ==
    /\ get_doccount_internal(T) = Cardinality(Live(T))
    /\ get_total_length(T) = SumOver(T, Live(T))

\* C6: doccount is the number of live records and total_length the sum of the
\* live documents' lengths, buffered and committed; an add raises total_length
\* by the new document's length, a delete lowers it by the deleted one's.
C6_DoccountAndTotalLength ==
    /\ I1I2(disk)
    /\ I1I2(buffered_tables)
    /\ SucceededCall("add_document") =>
          get_total_length(buffered_tables)
             = get_total_length(wlast.pre) + StoredDoclen(buffered_tables, wlast.did)
    /\ SucceededCall("delete_document") =>
          get_total_length(buffered_tables)
             = get_total_length(wlast.pre) - StoredDoclen(wlast.pre, wlast.did)

C6_Witness ==
    /\ wlast.op = "flush"
    /\ disk.record.nextdocid = 3
    /\ get_doccount_internal(disk) = 1
    /\ get_total_length(disk) = 3
    /\ get_avlength_internal(disk) = 3

I4(T) ==
    \A t \in TermNames :
        /\ LexiconTermfreq(T, t) = Len(PostList(T, t))
        /\ LexiconTermfreq(T, t) = Cardinality(DocsWith(T, t))
        /\ DocsWith(T, t) = {} => ~get_entry(T, t) /\ t \notin DOMAIN T.postlist

\* C7: the lexicon's termfreq of a term is the length of its posting list and
\* the number of live documents holding it; a term no live document holds has
\* no lexicon entry and no posting list.  A delete_document that walks the
\* indeterminate document left by the retry loop of lines 194-251 removes
\* the record and keeps the postings, so this does not hold of the code.
C7_TermfreqIsPostingListLength == I4(disk) /\ I4(buffered_tables)

I3(T) ==
    /\ \A d \in Live(T) :
          \A i \in 1..Len(OpenTermList(T, d)) :
             LET e == OpenTermList(T, d)[i]
             IN /\ get_entry(T, e.tname)
                /\ LexiconTermfreq(T, e.tname) >= 1
                /\ \E j \in 1..Len(PostList(T, e.tname)) :
                      /\ PostList(T, e.tname)[j].did = d
                      /\ PostList(T, e.tname)[j].wdf = e.wdf
    /\ \A t \in DOMAIN T.postlist :
          \A j \in 1..Len(T.postlist[t]) : T.postlist[t][j].did \in Live(T)

\* C8: every term of a live document's term list is in the lexicon with
\* termfreq >= 1 and has a posting-list entry for the document with the same
\* wdf; no posting-list entry refers to a document that is not live.  A
\* delete_document that walks the indeterminate document left by the retry
\* loop of lines 194-251 leaves posting-list entries of the deleted
\* document, so this does not hold of the code.
C8_TermListsAndPostingListsAgree == I3(disk) /\ I3(buffered_tables)

\* the equivalence of the round trip: termfreq is recomputed from the lexicon
SameDocument(got, doc, T) ==
    /\ got.data = doc.data
    /\ got.keys = doc.keys
    /\ DOMAIN got.terms = DOMAIN doc.terms
    /\ \A t \in DOMAIN doc.terms :
          /\ got.terms[t].tname = doc.terms[t].tname
          /\ got.terms[t].wdf = doc.terms[t].wdf
          /\ got.terms[t].positions = doc.terms[t].positions
          /\ got.terms[t].termfreq = LexiconTermfreq(T, t)

\* C9: get_document(did) returns the document add_document stored as did:
\* the same data, keys, terms, wdf and positions, termfreq being the
\* lexicon's value.
C9_RoundTrip ==
    SucceededCall("get_document") =>
        /\ wlast.did \in DOMAIN added
        /\ SameDocument(wlast.doc, added[wlast.did], buffered_tables)

C9_Witness ==
    /\ SucceededCall("get_document")
    /\ wlast.did \in Live(disk)
    /\ buffered_tables = disk
    /\ wlast.doc.data = "hello"
    /\ wlast.doc.terms["cat"].termfreq = 2
    /\ wlast.doc.terms["cat"].positions = <<0, 3>>

\* the reader was up to date when its call began and the writer committed
\* once during the call, after the record read and before the term-list read
OneCommitAfterRecordRead ==
    rhist.one_commit = "after_record_read"

\* C10 as claimed: whenever the writer commits once during get_document(did),
\* between the record read and the term-list read, the call does not raise:
\* it reopens once, reads again from an empty document and returns the new
\* snapshot's document.
C10_OneCommitAlwaysRetried ==
    (pc = "done" /\ OneCommitAfterRecordRead)
    => /\ result.kind = "returned"
       /\ result = get_document_attempt(disk, rdid)
       /\ rhist.reopens = 1
       /\ rhist.attempts = 2

\* C10 as amended: when the table layer signals that commit to the reader
\* with DatabaseModified, did is live in the new snapshot and no read meets
\* another error, the call does not raise: it reopens once, reads again from
\* an empty document and returns the new snapshot's document, with nothing
\* of the failed attempt kept.  (A reader that is not signalled completes on
\* the old snapshot; a did that the commit deleted ends in NotFound.)
C10_RetryReturnsNewSnapshot ==
    (/\ pc = "done"
     /\ OneCommitAfterRecordRead
     /\ rhist.caught >= 1
     /\ rdid \in Live(disk)
     /\ result.err \notin {"Io", "DatabaseCorrupt"})
    => /\ result = get_document_attempt(disk, rdid)
       /\ result.kind = "returned"
       /\ rhist.reopens = 1
       /\ rhist.attempts = 2
       /\ tables = disk

C10_Witness ==
    /\ pc = "done"
    /\ OneCommitAfterRecordRead
    /\ rhist.reopens = 1
    /\ result.kind = "returned"
    /\ result.doc.data = "hello"
    /\ result.doc.terms["cat"].termfreq = 2
    /\ result.doc.terms["dog"].termfreq = 1

----------------------------------------------------------------------------
\* a step of SpecSession that is a successful call of op on writable object 1
SessionCallOk(op) ==
    last_call'.db = 1 /\ last_call'.op = op /\ last_call'.outcome = "ok"

\* the terms of the document the writable database returns for did
Writable_terms(B, D, did) ==
    LET got == Writable_get_document(B, D, did)
    IN IF got.kind = "returned" THEN DOMAIN got.doc.terms ELSE {}

----------------------------------------------------------------------------
\* C12 (P6): in the buffered view and in the committed snapshot, after any
\* sequence of add_document, delete_document, flush and failed mutations,
\* get_termfreq of a term is 0 exactly when term_exists of it is false: no
\* lexicon entry with a term frequency of 0 is stored.
C12_TermfreqZeroIffAbsent ==
    \A T \in {buffered_tables, disk} :
       \A t \in TermNames :
          (LexiconTermfreq(T, t) = 0) <=> ~term_exists(T, t)

\* a delete_document removed the last document of a term: the term is gone
\* from the buffered lexicon while the committed one still has it
C12_Witness ==
    /\ SucceededCall("delete_document")
    /\ \E t \in TermNames :
          /\ LexiconTermfreq(wlast.pre, t) = 1
          /\ ~term_exists(buffered_tables, t)
          /\ term_exists(disk, t)

----------------------------------------------------------------------------
\* C13: begin_session takes the directory's exclusive session lock, so a
\* database with a session in progress holds the lock and no two writable
\* databases on the directory have a session in progress together; a
\* begin_session that fails does so with DatabaseLocked.
C13_SessionLockExclusive ==
    /\ \A w \in Writers : session[w] => session_lock = w
    /\ Cardinality({w \in Writers : session[w]}) <= 1
    /\ (last_call.op = "begin_session" /\ last_call.db \in Writers
           /\ last_call.outcome = "raised") => last_call.err = "DatabaseLocked"

----------------------------------------------------------------------------
\* C14: end_session applies the buffered changes and then releases the
\* session lock its session held; when apply fails the error reaches the
\* caller, the committed snapshot is as it was, and the lock is released all
\* the same.
C14_EndSessionReleasesLock ==
    [][ (last_call'.op = "end_session" /\ last_call'.db \in Writers) =>
           /\ session_lock = last_call'.db
           /\ session_lock' = 0
           /\ last_call'.outcome = "ok" =>
                 disk' = (IF last_call'.db = 1 THEN buffered_tables ELSE disk)
           /\ last_call'.outcome = "raised" => last_call'.err = "Io" /\ disk' = disk
      ]_vars

----------------------------------------------------------------------------
\* C15: every call of a mutation entry point of a read-only database has
\* failed with the "database opened read-only" invalid-operation error.
C15_ReadOnlyAlwaysInvalidOperation ==
    last_call.db = 0 =>
       last_call.outcome = "raised" /\ last_call.err = "InvalidOperation"

----------------------------------------------------------------------------
\* a step in which thread t leaves the entry point it was in
Leaves(t) == threads[t].pc = "body" /\ threads'[t].pc = "idle"

C17_MutexSerialisesCalls ==
    /\ \A t \in Threads : threads[t].pc = "body" <=> quartz_mutex = t
    /\ \A t \in Threads : threads[t].op \in ReadOps => threads[t].whole
    /\ \A t \in Threads :
          (threads[t].pc = "body" /\ threads[t].op \in ReadOps) => buffered_tables = stable

\* a read has returned, and now the other thread is between two table
\* updates of a mutation, holding the mutex
C17_Witness ==
    /\ threads[ReadingThread].pc = "idle"
    /\ threads[ReadingThread].op = "get_doccount"
    /\ threads[ReadingThread].outcome = "ok"
    /\ threads[ReadingThread].value = 1
    /\ threads[MutatingThread].pc = "body"
    /\ threads[MutatingThread].i > 0
    /\ buffered_tables # stable
    /\ quartz_mutex = MutatingThread

----------------------------------------------------------------------------
\* C18 (I6): after any sequence of add_document, delete_document, flush and
\* cancelled mutations, the docid a successful add_document returns is not
\* 0 and is not the docid of a document that was live when it was called.
C18_FreshDocid ==
    SucceededCall("add_document") =>
       /\ wlast.did # 0
       /\ wlast.did \notin Live(wlast.pre)
       /\ wlast.did \in Live(buffered_tables)

\* add_document returned 2 when document 1 had been deleted and no
\* document was live
C18_Witness ==
    /\ SucceededCall("add_document")
    /\ wlast.did = 2
    /\ Live(wlast.pre) = {}

----------------------------------------------------------------------------
\* C19: inside get_document the tables are reopened only in the step that
\* catches a DatabaseModified, once, to the committed snapshot; a new
\* attempt starts only in such a step, after its reopen, and a caught
\* DatabaseModified that is not followed by a reopen is raised to the
\* caller; an error other than DatabaseModified ends the call in the step
\* that raises it, with no reopen and no further attempt.
C19_OnlyDatabaseModifiedRetries ==
    [][ (pc \in ReadPcs) =>
          /\ (tables' # tables \/ tables_rev' # tables_rev
                 \/ rhist'.reopens # rhist.reopens) =>
                /\ rhist'.caught = rhist.caught + 1
                /\ rhist'.reopens = rhist.reopens + 1
                /\ tables' = disk
          /\ rhist'.caught # rhist.caught =>
                /\ rhist'.caught = rhist.caught + 1
                /\ \/ rhist'.reopens = rhist.reopens + 1
                   \/ /\ rhist'.reopens = rhist.reopens
                      /\ pc' = "done"
                      /\ result' = Raised("DatabaseModified")
          /\ rhist'.attempts # rhist.attempts =>
                /\ rhist'.attempts = rhist.attempts + 1
                /\ rhist'.caught = rhist.caught + 1
                /\ rhist'.reopens = rhist.reopens + 1
                /\ pc' = "get_record"
          /\ (result'.kind = "raised" /\ result'.err # "DatabaseModified") =>
                /\ pc' = "done"
                /\ UNCHANGED <<tables, tables_rev, tries_left>>
                /\ rhist'.reopens = rhist.reopens
                /\ rhist'.attempts = rhist.attempts
                /\ rhist'.caught = rhist.caught
      ]_vars

\* after one DatabaseModified and one reopen, the second attempt met an
\* I/O error, which ended the call
C19_Witness ==
    /\ pc = "done"
    /\ result.kind = "raised"
    /\ result.err = "Io"
    /\ rhist.caught = 1
    /\ rhist.reopens = 1
    /\ rhist.attempts = 2

----------------------------------------------------------------------------
\* C20: during get_document tries_left is 5 less the number of
\* DatabaseModified errors caught, and never below 0; there are at most 5
\* read attempts and at most 5 reopens, however many commits the writer
\* makes, and with the fifth DatabaseModified the call has left the loop.
C20_BoundedRetries ==
    /\ tries_left \in 0..InitialTries
    /\ rhist.attempts <= InitialTries
    /\ rhist.reopens <= InitialTries
    /\ pc \in ReadPcs \cup {"done"} => tries_left = InitialTries - rhist.caught
    /\ pc \in ReadPcs => tries_left > 0 /\ rhist.attempts = rhist.caught + 1
    /\ rhist.caught = InitialTries => pc = "done"

----------------------------------------------------------------------------
\* the frames of thread t whose sentry holds the mutex
LockedFrames(t) == {k \in 1..Len(stack[t]) : stack[t][k].locked}

\* No thread reaches a sentry of the mutex it holds: at most one frame of a
\* thread holds a mutex, and the thread holds one exactly then; the internal
\* helpers run without a sentry of their own, under the one of the entry
\* point that called them; a delegating reader of the writable database has
\* no sentry of its own
OneSentryPerCall ==
    \A t \in Threads :
       /\ threads[t].pc # "deadlocked"
       /\ Cardinality(LockedFrames(t)) <= 1
       /\ (quartz_mutex = t \/ reader_quartz_mutex = t) <=> LockedFrames(t) # {}
       /\ \A k \in 1..Len(stack[t]) :
             /\ stack[t][k].fn \in InternalHelpers =>
                   ~stack[t][k].locked /\ \E j \in 1..(k - 1) : stack[t][j].locked
             /\ stack[t][k].fn \in DelegatingReaders => ~stack[t][k].locked

\* C21: no thread reaches a sentry of the mutex while it holds the mutex,
\* the entry points that hold it call only the internal helpers, which take
\* no mutex, and every finished call of a delegating reader of the writable
\* database (get_avlength, get_termfreq, get_collection_freq, term_exists,
\* get_doclength) has taken the mutex exactly once, in database_ro.
C21_NoSelfDeadlock ==
    /\ OneSentryPerCall
    /\ \A t \in Threads :
          (threads[t].pc = "idle" /\ threads[t].op \in DelegatingReaders)
             => threads[t].value = 1

====
